---- MODULE Spec2Model ----
(***************************************************************************)
(* Model of the photo restoration session of src/App.tsx: the five React   *)
(* state fields of App, the file input held by fileInputRef, the object    *)
(* URLs handed out by URL.createObjectURL, and the restorePhoto calls that *)
(* are awaited by handleRestore.                                           *)
(*                                                                         *)
(* A handler runs to completion on the state committed by the last render  *)
(* (React batches the set-state calls of one handler; the last write to a  *)
(* field wins), so each handler is one action.  handleRestore is two: the  *)
(* part before `await` and the continuation after it.                      *)
(*                                                                         *)
(* Strings that the code inspects or builds (file.type, the data: URL) are *)
(* sequences of one-character strings, so startsWith and the template      *)
(* literal are computed, not assumed.                                      *)
(***************************************************************************)
EXTENDS Integers, Sequences, FiniteSets, TLC

\* ------------------------------------------------------------------ bounds
\* how many object URLs URL.createObjectURL may hand out in a run
MaxUrls == 3
\* how many restorePhoto calls may be issued in a run
MaxRequests == 2

\* ------------------------------------------------------------ text values
\* a nullable value is a sequence of length at most one: null (or undefined)
\* is the empty one, so that null and the empty string stay distinct
Null == <<>>
Some(x) == <<x>>
Val(o) == o[1]
\* useState<string | null>(null) for the error text
NoError == "null"

ImagePrefix == <<"i","m","a","g","e","/">>
DataScheme == <<"d","a","t","a",":">>
Base64Marker == <<";","b","a","s","e","6","4",",">>

TypeJpeg == <<"i","m","a","g","e","/","j","p","e","g">>
TypePng == <<"i","m","a","g","e","/","p","n","g">>
TypeWebp == <<"i","m","a","g","e","/","w","e","b","p">>
TypeText == <<"t","e","x","t","/","p","l","a","i","n">>
\* the browser reports an empty type for a file it cannot classify
TypeUnknown == <<>>

\* the files the user may pick: name, extension of the name ("" when the
\* name has none) and declared MIME type
Files ==
  { [name |-> "photo.jpg", ext |-> "jpg", type |-> TypeJpeg],
    [name |-> "scan.png",  ext |-> "png", type |-> TypePng],
    [name |-> "portrait",  ext |-> "",    type |-> TypeWebp],
    [name |-> "notes.txt", ext |-> "txt", type |-> TypeText],
    [name |-> "blob.xyz",  ext |-> "xyz", type |-> TypeUnknown] }

\* event.target.files: the input is not `multiple`, so one file or none
FileLists == { Some(f) : f \in Files } \cup { Null }

\* base64 strings restorePhoto may resolve to
Payloads == { <<"Z","m","9","v","Y","m","F","y">>, <<"Q","Q","=","=">> }

\* reasons restorePhoto may reject with
Causes == { "TypeError: Failed to fetch", "HTTP 500", "No image in response" }

ValidationMessage == "Please upload a valid image file (PNG, JPG, etc.)."
RestoreFailedMessage == "Failed to restore photo. Please try again later."

\* ------------------------------------------------------------------ state
VARIABLES
  originalImage,     \* File | null
  originalImageUrl,  \* object URL (its number) | null
  restoredImageUrl,  \* data: URL | null
  isLoading,         \* boolean
  error,             \* string | null
  inputValue,        \* value of the <input type="file"> ("" when empty or unmounted)
  liveUrls,          \* object URLs created and not revoked
  revokeLog,         \* arguments of the URL.revokeObjectURL calls, in order
  urlsCreated,       \* number of URL.createObjectURL calls
  pending,           \* restorePhoto calls awaiting settlement: [id, file]
  requests,          \* number of restorePhoto calls issued
  lastEvent          \* history: the handler step taken last, and how many
                     \* URLs it passed to URL.revokeObjectURL

vars == <<originalImage, originalImageUrl, restoredImageUrl, isLoading, error,
          inputValue, liveUrls, revokeLog, urlsCreated, pending, requests,
          lastEvent>>

session == <<originalImage, originalImageUrl, restoredImageUrl, isLoading, error>>
urlRegistry == <<liveUrls, revokeLog, urlsCreated>>
service == <<pending, requests>>

\* ---------------------------------------------------------- pure functions
Range(s) == { s[i] : i \in 1..Len(s) }
\* how many times x occurs in the sequence s
Count(s, x) == Cardinality({ i \in 1..Len(s) : s[i] = x })

\* String.prototype.startsWith
StartsWith(s, prefix) ==
  /\ Len(s) >= Len(prefix)
  /\ SubSeq(s, 1, Len(prefix)) = prefix

\* variant: any file with a declared type is accepted
IsImageAnyType(file) == Len(file.type) > 0

\* !file.type.startsWith('image/') is false
IsImage(file) == StartsWith(file.type, ImagePrefix)

\* variant: the media type is written as a literal instead of taken from the file
DataUrlFixedType(file, restoredBase64) ==
  DataScheme \o TypePng \o Base64Marker \o restoredBase64

\* `data:${originalImage.type};base64,${restoredBase64}`
DataUrl(file, restoredBase64) ==
  DataScheme \o file.type \o Base64Marker \o restoredBase64

\* the media type a data: URL declares: what follows "data:" up to the first ";"
MediaTypeOf(url) ==
  LET rest == SubSeq(url, Len(DataScheme) + 1, Len(url))
      semis == { i \in 1..Len(rest) : rest[i] = ";" }
      stop == IF semis = {} THEN Len(rest) + 1
              ELSE CHOOSE i \in semis : \A j \in semis : i <= j
  IN SubSeq(rest, 1, stop - 1)

\* variant: the rejection's own text is shown
CaughtMessageRaw(cause) == cause

\* the message the catch block stores for a rejection
CaughtMessage(cause) == RestoreFailedMessage

Event(op, revoked) == [op |-> op, revoked |-> revoked]

\* ------------------------------------------------------------------ render
\* PhotoFrame shows its children (the file input) only when it has no image
FileInputMounted == originalImageUrl = Null
\* variant: the button is also disabled once an attempt has left a result
RestoreEnabledOnce ==
  originalImage # Null /\ ~isLoading /\ restoredImageUrl = Null /\ error = NoError

\* variant: the button is disabled only for want of a file
RestoreEnabledWhileLoading == originalImage # Null

\* disabled={!originalImage || isLoading}
RestoreEnabled == originalImage # Null /\ ~isLoading
\* variant: the button is rendered without the disabled attribute
ResetEnabledWhileLoading == originalImage # Null \/ restoredImageUrl # Null

\* {(originalImage || restoredImageUrl) && <button disabled={isLoading}>}
ResetEnabled == (originalImage # Null \/ restoredImageUrl # Null) /\ ~isLoading

\* {restoredImageUrl && <a href={restoredImageUrl} download=...>}
DownloadShown == restoredImageUrl # Null
\* download="restored-photo.png", as stem and extension
DownloadName == [stem |-> "restored-photo", ext |-> "png"]

\* the status the page presents, read off the fields the way the render does
StatusOf(img, restored, loading, err) ==
  IF loading THEN "Restoring"
  ELSE IF restored # Null THEN "Succeeded"
  ELSE IF err = RestoreFailedMessage THEN "Failed"
  ELSE IF img # Null THEN "Ready"
  ELSE "Idle"

Status == StatusOf(originalImage, restoredImageUrl, isLoading, error)

\* ---------------------------------------------------------------- resetState
\* variant: resetState revokes the URL kept in a ref that is never cleared
ResetRevokesLastCreated == IF urlsCreated > 0 THEN <<urlsCreated>> ELSE <<>>

\* variant: resetState revokes nothing
ResetRevokesNone == <<>>

\* the URLs resetState passes to URL.revokeObjectURL
ResetRevokes == IF originalImageUrl # Null THEN <<Val(originalImageUrl)>> ELSE <<>>

\* variants: resetState leaves the field as it is
ResetOriginalImageUrlKept == originalImageUrl
ResetErrorKept == error

\* what resetState leaves in a field it clears
ResetOriginalImageUrl == Null
ResetRestored == Null
ResetError == NoError

ResetState ==
  /\ originalImage' = Null
  /\ originalImageUrl' = ResetOriginalImageUrl
  /\ restoredImageUrl' = ResetRestored
  /\ isLoading' = FALSE
  /\ error' = ResetError
  /\ inputValue' = ""
  /\ liveUrls' = liveUrls \ Range(ResetRevokes)
  /\ revokeLog' = revokeLog \o ResetRevokes
  /\ lastEvent' = Event("reset", Len(ResetRevokes))
  /\ UNCHANGED <<urlsCreated, service>>

\* ---------------------------------------------------------- handleFileChange
\* URL.createObjectURL returns a URL never returned before
NewObjectUrl == urlsCreated + 1

\* variant: the new URL is registered without revoking the held one
LiveAfterSelectNoRevoke == liveUrls \cup {NewObjectUrl}

\* the live URLs after a valid selection: resetState's revocation, then the new one
LiveAfterSelect == (liveUrls \ Range(ResetRevokes)) \cup {NewObjectUrl}

\* the error stored when the chosen file is not an image
ValidationError == ValidationMessage

HandleFileChange(files) ==
  LET file == Val(files) IN
  IF files = Null
  THEN /\ inputValue' = ""
       /\ lastEvent' = Event("selectNone", 0)
       /\ UNCHANGED <<session, urlRegistry, service>>
  ELSE IF ~IsImage(file)
  THEN /\ error' = ValidationError
       /\ inputValue' = IF FileInputMounted THEN file.name ELSE ""
       /\ lastEvent' = Event("selectInvalid", 0)
       /\ UNCHANGED <<originalImage, originalImageUrl, restoredImageUrl, isLoading,
                      urlRegistry, service>>
  ELSE /\ urlsCreated < MaxUrls
       /\ originalImage' = Some(file)
       /\ originalImageUrl' = Some(NewObjectUrl)
       /\ restoredImageUrl' = ResetRestored
       /\ isLoading' = FALSE
       /\ error' = ResetError
       /\ inputValue' = ""
       /\ liveUrls' = LiveAfterSelect
       /\ revokeLog' = revokeLog \o ResetRevokes
       /\ urlsCreated' = urlsCreated + 1
       /\ lastEvent' = Event("selectValid", Len(ResetRevokes))
       /\ UNCHANGED service

\* ------------------------------------------------------------- handleRestore
\* variants: handleRestore leaves the field as it is
RestoreStartErrorKept == error
RestoreStartRestoredKept == restoredImageUrl

\* the fields handleRestore clears before the call
RestoreStartError == NoError
RestoreStartRestored == Null

\* variant: the early return comes after the fields are cleared
HandleRestoreNoFileClearing ==
  /\ error' = NoError
  /\ restoredImageUrl' = Null
  /\ lastEvent' = Event("restoreNoFile", 0)
  /\ UNCHANGED <<originalImage, originalImageUrl, isLoading, inputValue,
                 urlRegistry, service>>

\* if (!originalImage) return;
HandleRestoreNoFile ==
  /\ lastEvent' = Event("restoreNoFile", 0)
  /\ UNCHANGED <<session, inputValue, urlRegistry, service>>

\* the three set-state calls and the call of restorePhoto(originalImage)
HandleRestoreStart ==
  /\ requests < MaxRequests
  /\ isLoading' = TRUE
  /\ error' = RestoreStartError
  /\ restoredImageUrl' = RestoreStartRestored
  /\ requests' = requests + 1
  /\ pending' = pending \cup { [id |-> requests + 1, file |-> Val(originalImage)] }
  /\ lastEvent' = Event("restore", 0)
  /\ UNCHANGED <<originalImage, originalImageUrl, inputValue, urlRegistry>>

\* handleRestore up to the await
HandleRestore ==
  IF originalImage = Null THEN HandleRestoreNoFile ELSE HandleRestoreStart

\* variant: the flag is lowered in the try body only, not in a finally block
FinallyIsLoadingOnRejectKept == isLoading

\* finally { setIsLoading(false) }, as it acts on each path
FinallyIsLoadingOnResolve == FALSE
FinallyIsLoadingOnReject == FALSE

\* variant: a result is dropped when the session no longer holds the file
RestoreResolvedIfCurrent(req, restoredBase64) ==
  /\ req \in pending
  /\ pending' = pending \ {req}
  /\ IF originalImage = Some(req.file)
     THEN /\ restoredImageUrl' = Some(DataUrl(req.file, restoredBase64))
          /\ isLoading' = FALSE
     ELSE UNCHANGED <<restoredImageUrl, isLoading>>
  /\ lastEvent' = Event("resolved", 0)
  /\ UNCHANGED <<originalImage, originalImageUrl, error, inputValue, urlRegistry,
                 requests>>

\* the continuation when restorePhoto resolves: try body, then finally
RestoreResolved(req, restoredBase64) ==
  /\ req \in pending
  /\ pending' = pending \ {req}
  /\ restoredImageUrl' = Some(DataUrl(req.file, restoredBase64))
  /\ isLoading' = FinallyIsLoadingOnResolve
  /\ lastEvent' = Event("resolved", 0)
  /\ UNCHANGED <<originalImage, originalImageUrl, error, inputValue, urlRegistry,
                 requests>>

\* variant: the catch block calls restorePhoto again
RestoreRejectedRetrying(req, cause) ==
  /\ req \in pending
  /\ IF requests < MaxRequests
     THEN /\ pending' = (pending \ {req}) \cup { [id |-> requests + 1, file |-> req.file] }
          /\ requests' = requests + 1
          /\ UNCHANGED <<error, isLoading>>
     ELSE /\ pending' = pending \ {req}
          /\ error' = RestoreFailedMessage
          /\ isLoading' = FALSE
          /\ UNCHANGED requests
  /\ lastEvent' = Event("rejected", 0)
  /\ UNCHANGED <<originalImage, originalImageUrl, restoredImageUrl, inputValue,
                 urlRegistry>>

\* the continuation when restorePhoto rejects: catch, then finally
RestoreRejected(req, cause) ==
  /\ req \in pending
  /\ pending' = pending \ {req}
  /\ error' = CaughtMessage(cause)
  /\ isLoading' = FinallyIsLoadingOnReject
  /\ lastEvent' = Event("rejected", 0)
  /\ UNCHANGED <<originalImage, originalImageUrl, restoredImageUrl, inputValue,
                 urlRegistry, requests>>

\* ------------------------------------------------------------ specifications
Init ==
  /\ originalImage = Null
  /\ originalImageUrl = Null
  /\ restoredImageUrl = Null
  /\ isLoading = FALSE
  /\ error = NoError
  /\ inputValue = ""
  /\ liveUrls = {}
  /\ revokeLog = <<>>
  /\ urlsCreated = 0
  /\ pending = {}
  /\ requests = 0
  /\ lastEvent = Event("init", 0)

\* the events the rendered page can deliver
PickFile(files) == FileInputMounted /\ HandleFileChange(files)
ClickRestore == RestoreEnabled /\ HandleRestore
ClickStartOver == ResetEnabled /\ ResetState
Resolve == \E req \in pending : \E p \in Payloads : RestoreResolved(req, p)
Reject == \E req \in pending : \E c \in Causes : RestoreRejected(req, c)

Next ==
  \/ \E files \in FileLists : PickFile(files)
  \/ ClickRestore
  \/ ClickStartOver
  \/ Resolve
  \/ Reject

Spec == Init /\ [][Next]_vars

\* the handlers called in any order, whatever the page shows or disables
CallFileChange == \E files \in FileLists : HandleFileChange(files)
CallRestore == HandleRestore
CallReset == ResetState

NextH ==
  \/ CallFileChange
  \/ CallRestore
  \/ CallReset
  \/ Resolve
  \/ Reject

SpecH == Init /\ [][NextH]_vars

\* the page's events, with a restoration service that settles every call:
\* a pending call is eventually resolved or rejected
Settle == Resolve \/ Reject
SpecLive == Init /\ [][Next]_vars /\ WF_vars(Settle)

TypeOK ==
  /\ originalImage \in FileLists
  /\ originalImageUrl \in { Some(u) : u \in 1..MaxUrls } \cup {Null}
  /\ isLoading \in BOOLEAN
  /\ error \in {NoError, ValidationMessage, RestoreFailedMessage}
  /\ liveUrls \subseteq 1..MaxUrls
  /\ urlsCreated \in 0..MaxUrls
  /\ requests \in 0..MaxRequests

\* ==================================================================== claims

\* C1: a restore clicked in Ready shows Restoring at once (isLoading set, the
\* restored reference and the error cleared); the only step a Restoring
\* session takes is the settlement of its request; when the request resolves
\* the session goes from Restoring to Succeeded and the stored data: URL
\* declares the MIME type of the session's originalImage.
C1_ReadyRestoringSucceeded ==
  [][ /\ (Status = "Ready" /\ lastEvent'.op = "restore") =>
            /\ Status' = "Restoring"
            /\ isLoading'
            /\ restoredImageUrl' = Null
            /\ error' = NoError
      /\ Status = "Restoring" => lastEvent'.op \in {"resolved", "rejected"}
      /\ lastEvent'.op = "resolved" =>
            /\ Status = "Restoring"
            /\ Status' = "Succeeded"
            /\ originalImage' = originalImage
            /\ originalImage # Null
            /\ restoredImageUrl' # Null
            /\ MediaTypeOf(Val(restoredImageUrl')) = Val(originalImage).type
    ]_vars

\* a first restoration, started in Ready, has succeeded for a JPEG
C1_Witness ==
  /\ lastEvent.op = "resolved"
  /\ requests = 1
  /\ Status = "Succeeded"
  /\ Val(originalImage).type = TypeJpeg
  /\ MediaTypeOf(Val(restoredImageUrl)) = TypeJpeg

\* C2: a restore clicked in Ready shows Restoring; when the request rejects,
\* whatever the cause, the session goes from Restoring to Failed, the error
\* is exactly the fixed message and no restored reference is set.
C2_ReadyRestoringFailed ==
  [][ /\ (Status = "Ready" /\ lastEvent'.op = "restore") => Status' = "Restoring"
      /\ lastEvent'.op = "rejected" =>
            /\ Status = "Restoring"
            /\ Status' = "Failed"
            /\ error' = "Failed to restore photo. Please try again later."
            /\ restoredImageUrl' = Null
    ]_vars

\* a first restoration, started in Ready, has failed
C2_Witness ==
  /\ lastEvent.op = "rejected"
  /\ requests = 1
  /\ Status = "Failed"
  /\ error = "Failed to restore photo. Please try again later."
  /\ restoredImageUrl = Null

\* C3: under the events the page can deliver, a restored reference is set
\* only in Succeeded.
C3_RestoredOnlyWhenSucceeded ==
  restoredImageUrl # Null => Status = "Succeeded"

\* a restored reference is held after the second restoration of a session
C3_Witness ==
  /\ restoredImageUrl # Null
  /\ lastEvent.op = "resolved"
  /\ requests = 2
  /\ Status = "Succeeded"

\* C4 as claimed: an error message is set exactly when the status is Failed.
C4_ErrorIffFailed ==
  error # NoError <=> Status = "Failed"

\* C4: the restoration-failure message is set exactly when the status is
\* Failed; the only other message ever set is the validation message of a
\* rejected file, and it is set only while the status is Idle; no message is
\* set in Ready, Restoring or Succeeded.
C4_ErrorFailedOrIdleValidation ==
  /\ error = RestoreFailedMessage <=> Status = "Failed"
  /\ error = ValidationMessage => Status = "Idle"
  /\ error \in {NoError, RestoreFailedMessage, ValidationMessage}
  /\ Status \in {"Ready", "Restoring", "Succeeded"} => error = NoError

\* a non-image file was picked: its message is shown by an Idle session
C4_Witness ==
  /\ lastEvent.op = "selectInvalid"
  /\ error = ValidationMessage
  /\ Status = "Idle"

\* C5: at no time do two created and unrevoked object URLs exist, and a valid
\* selection made while a preview is held revokes that preview: the held URL
\* is not live afterwards, the new one is.
C5_AtMostOneLivePreview ==
  [][ /\ Cardinality(liveUrls') <= 1
      /\ (lastEvent'.op = "selectValid" /\ originalImageUrl # Null) =>
            /\ Val(originalImageUrl) \notin liveUrls'
            /\ Count(revokeLog', Val(originalImageUrl)) = 1
            /\ liveUrls' = {Val(originalImageUrl')}
            /\ originalImageUrl' # originalImageUrl
    ]_vars

\* a valid file was selected over a held preview, which was revoked
C5_Witness ==
  /\ lastEvent = Event("selectValid", 1)
  /\ urlsCreated = 2
  /\ revokeLog = <<1>>
  /\ liveUrls = {2}

\* C6: a preview URL is held exactly when a file is held, and the held URL
\* is one that was created and not revoked.
C6_PreviewIffFile ==
  /\ originalImageUrl # Null <=> originalImage # Null
  /\ originalImageUrl # Null => Val(originalImageUrl) \in liveUrls

\* after a reset and a new selection the session holds the second URL, live
C6_Witness ==
  /\ originalImage # Null
  /\ originalImageUrl = Some(2)
  /\ liveUrls = {2}
  /\ revokeLog = <<1>>

\* C7: handleFileChange with a file whose type starts with image/, from any
\* state, gives status Ready, stores that file, stores a URL that did not
\* exist before and is the only live one, and clears the restored
\* reference and the error.
C7_ValidSelectGivesReady ==
  [][ \A files \in FileLists :
        ( /\ files # Null
          /\ StartsWith(Val(files).type, ImagePrefix)
          /\ HandleFileChange(files) ) =>
            /\ Status' = "Ready"
            /\ originalImage' = files
            /\ originalImageUrl' # Null
            /\ Val(originalImageUrl') \notin liveUrls \cup Range(revokeLog)
            /\ liveUrls' = {Val(originalImageUrl')}
            /\ restoredImageUrl' = Null
            /\ error' = NoError
    ]_vars

\* a valid file was selected while a request was pending and a preview held
C7_Witness ==
  /\ lastEvent = Event("selectValid", 1)
  /\ pending # {}
  /\ Status = "Ready"
  /\ liveUrls = {Val(originalImageUrl)}

C9_RestoreWithoutFileNoOp ==
  [][ (originalImage = Null /\ HandleRestore) =>
        /\ UNCHANGED <<originalImage, originalImageUrl, restoredImageUrl,
                       isLoading, error>>
        /\ UNCHANGED <<pending, requests>>
        /\ Status' = Status
    ]_vars

\* handleRestore ran on an Idle session showing a validation message
C9_Witness ==
  /\ lastEvent.op = "restoreNoFile"
  /\ originalImage = Null
  /\ Status = "Idle"
  /\ error = ValidationMessage
  /\ requests = 0

\* C10: resetState from any state gives status Idle with the file, the
\* preview, the restored reference and the error cleared; a held preview
\* URL is revoked by it once, and has then been revoked once in all; with
\* no preview held nothing is revoked.
C10_ResetClearsAndReleasesOnce ==
  [][ ResetState =>
        /\ Status' = "Idle"
        /\ originalImage' = Null
        /\ originalImageUrl' = Null
        /\ restoredImageUrl' = Null
        /\ error' = NoError
        /\ IF originalImageUrl # Null
           THEN /\ revokeLog' = Append(revokeLog, Val(originalImageUrl))
                /\ Count(revokeLog', Val(originalImageUrl)) = 1
                /\ liveUrls' = liveUrls \ {Val(originalImageUrl)}
           ELSE UNCHANGED <<revokeLog, liveUrls>>
    ]_vars

\* resetState ran while a request was pending and released the held preview
C10_Witness ==
  /\ lastEvent = Event("reset", 1)
  /\ pending # {}
  /\ Status = "Idle"
  /\ liveUrls = {}
  /\ revokeLog # <<>>

\* C11: under the events the page can deliver, at most one restorePhoto call
\* is awaiting settlement, one is awaiting exactly when isLoading is set
\* (status Restoring), and while one is awaiting the Restore button is
\* disabled.
C11_OneRequestIffBusy ==
  /\ Cardinality(pending) <= 1
  /\ pending # {} <=> isLoading
  /\ isLoading <=> Status = "Restoring"
  /\ pending # {} => ~RestoreEnabled

\* a second restoration of the same session is the only one in flight
C11_Witness ==
  /\ Cardinality(pending) = 1
  /\ requests = 2
  /\ isLoading
  /\ originalImage # Null

\* C12: while a restorePhoto call is awaiting settlement the page offers no
\* file input, no enabled Restore button and no enabled Start Over button;
\* the only step is the settlement, and it finds the session as
\* handleRestore left it: loading, error and restored reference cleared,
\* holding the file the call was made with.
C12_NoInputWhilePending ==
  [][ pending # {} =>
        /\ ~FileInputMounted
        /\ ~RestoreEnabled
        /\ ~ResetEnabled
        /\ lastEvent'.op \in {"resolved", "rejected"}
        /\ isLoading
        /\ error = NoError
        /\ restoredImageUrl = Null
        /\ \A req \in pending : originalImage = Some(req.file)
        /\ UNCHANGED <<originalImage, originalImageUrl, urlRegistry>>
    ]_vars

\* a request made for the second selected file has been rejected
C12_Witness ==
  /\ lastEvent.op = "rejected"
  /\ urlsCreated = 2
  /\ originalImageUrl = Some(2)
  /\ requests = 1
  /\ error = RestoreFailedMessage

\* C13: with a service that settles every call, a session that is loading
\* eventually is not, and is then Succeeded or Failed with no call left
\* awaiting; both continuations lower isLoading, and a rejection ends in the
\* catch block's state (Failed, fixed message), not anywhere else.
C13_RestoringEnds ==
  /\ isLoading ~> (~isLoading /\ pending = {} /\ Status \in {"Succeeded", "Failed"})
  /\ [][ /\ lastEvent'.op \in {"resolved", "rejected"} => ~isLoading'
         /\ lastEvent'.op = "rejected" =>
               (Status' = "Failed" /\ error' = RestoreFailedMessage)
       ]_vars

\* a retried restoration has ended in failure and the flag is lowered
C13_Witness ==
  /\ lastEvent.op = "rejected"
  /\ requests = 2
  /\ ~isLoading
  /\ pending = {}
  /\ Status = "Failed"

\* C14: in each of Ready, Succeeded and Failed the page lets the user pick a
\* file (the file input is there to deliver handleFileChange) and lets the
\* user start over (the Start Over button is shown and enabled).
C14_UsableAfterAnyOutcome ==
  Status \in {"Ready", "Succeeded", "Failed"} =>
    (FileInputMounted /\ ResetEnabled)

\* C15: every handleRestore call made with a file present issues exactly one
\* restorePhoto call, no other step issues one, and a rejection in
\* particular issues none: the calls issued are as many as the accepted
\* handleRestore calls.
C15_OneRequestPerRestore ==
  [][ /\ lastEvent'.op = "restore" =>
            /\ originalImage # Null
            /\ requests' = requests + 1
            /\ Cardinality(pending') = Cardinality(pending) + 1
            /\ \E req \in pending' \ pending : req.file = Val(originalImage)
      /\ lastEvent'.op # "restore" =>
            /\ requests' = requests
            /\ pending' \subseteq pending
      /\ lastEvent'.op = "rejected" =>
            Cardinality(pending') = Cardinality(pending) - 1
    ]_vars

\* the one call issued was rejected and nothing was issued in its place
C15_Witness ==
  /\ lastEvent.op = "rejected"
  /\ requests = 1
  /\ pending = {}
  /\ urlsCreated = 1

\* C16 as claimed: resetState on a session whose status is Idle changes no
\* field and revokes nothing.
C16_ResetOnIdleChangesNothing ==
  [][ (Status = "Idle" /\ ResetState) =>
        UNCHANGED <<originalImage, originalImageUrl, restoredImageUrl,
                    isLoading, error, liveUrls, revokeLog>>
    ]_vars

\* C16: resetState on a session whose status is Idle revokes nothing and
\* changes no field other than the error, which it clears (an Idle session
\* may be showing the validation message); on an Idle session showing no
\* message it changes nothing at all; and a resetState that follows a
\* resetState changes nothing, so twice gives the state that once gives.
C16_ResetIdempotent ==
  [][ /\ (Status = "Idle" /\ ResetState) =>
            /\ UNCHANGED <<originalImage, originalImageUrl, restoredImageUrl,
                           isLoading, liveUrls, revokeLog, urlsCreated>>
            /\ error' = NoError
            /\ error \in {NoError, ValidationMessage}
      /\ (Status = "Idle" /\ error = NoError /\ ResetState) =>
            UNCHANGED <<session, inputValue, urlRegistry, service>>
      /\ (lastEvent.op = "reset" /\ ResetState) =>
            UNCHANGED <<session, inputValue, urlRegistry, service>>
    ]_vars

\* resetState ran a second time, after one that had released a preview
C16_Witness ==
  /\ lastEvent = Event("reset", 0)
  /\ revokeLog = <<1>>
  /\ urlsCreated = 1
  /\ Status = "Idle"
  /\ requests = 0

\* C17: whenever the download link is shown, the name it offers is
\* restored-photo.<ext> with <ext> the extension of the original file's name,
\* or png when that name has no extension.
C17_DownloadNameFollowsOriginal ==
  (DownloadShown /\ originalImage # Null) =>
    DownloadName =
      [stem |-> "restored-photo",
       ext |-> IF Val(originalImage).ext = "" THEN "png" ELSE Val(originalImage).ext]

\* C18: the Restore button is enabled in each of Ready, Succeeded and Failed
\* when a file is held; a click moves the session to Restoring with the
\* error and the restored reference cleared, the file kept, and a call
\* issued for that file.
C18_RestoreFromAnySettledState ==
  [][ /\ (Status \in {"Ready", "Succeeded", "Failed"} /\ originalImage # Null) =>
            RestoreEnabled
      /\ lastEvent'.op = "restore" =>
            /\ Status \in {"Ready", "Succeeded", "Failed"}
            /\ Status' = "Restoring"
            /\ error' = NoError
            /\ restoredImageUrl' = Null
            /\ originalImage' = originalImage
            /\ \E req \in pending' : req.file = Val(originalImage)
    ]_vars

\* a session whose first attempt has ended (Succeeded or Failed) is being
\* restored again without a new selection
C18_Witness ==
  /\ lastEvent.op = "restore"
  /\ requests = 2
  /\ urlsCreated = 1
  /\ revokeLog = <<>>
  /\ Status = "Restoring"
  /\ error = NoError
  /\ restoredImageUrl = Null

\* C19: with the handlers called directly, resetState or a valid
\* handleFileChange during a pending call lowers isLoading and leaves the
\* call pending; the continuation then writes whatever the session holds:
\* on resolve the data: URL of the file the call was made with, on reject
\* the failure message, in both cases leaving the file and preview alone.
C19_OverlapUnguarded ==
  [][ /\ (pending # {} /\ lastEvent'.op \in {"reset", "selectValid"}) =>
            (~isLoading' /\ pending' = pending)
      /\ lastEvent'.op = "resolved" =>
            \E req \in pending : \E p \in Payloads :
               /\ pending' = pending \ {req}
               /\ restoredImageUrl' = Some(DataScheme \o req.file.type \o Base64Marker \o p)
               /\ ~isLoading'
               /\ UNCHANGED <<originalImage, originalImageUrl>>
      /\ lastEvent'.op = "rejected" =>
            /\ error' = RestoreFailedMessage
            /\ ~isLoading'
            /\ UNCHANGED <<originalImage, originalImageUrl>>
    ]_vars

\* the restored image of a replaced file was written into a session that
\* holds a file of another type
C19_Witness ==
  /\ lastEvent.op = "resolved"
  /\ originalImage # Null
  /\ restoredImageUrl # Null
  /\ MediaTypeOf(Val(restoredImageUrl)) # Val(originalImage).type
  /\ pending = {}
====
